---- MODULE Spec2Model ----
(***************************************************************************)
(* The wave/triple pipeline of pattern_recognition.py (PatternSystem.run):  *)
(* smooth -> extrema -> waves -> classify -> triples -> quality -> phase.   *)
(*                                                                         *)
(* Numbers.  Prices on the smoothed series are integers, so amplitudes are  *)
(* integers and durations are index differences.  Every comparison the code *)
(* makes between floats is made here between exact rationals, cross-         *)
(* multiplied to integers.  The guard 1e-9 the code adds to a denominator   *)
(* is kept as a quantity smaller than every grid step: it decides a         *)
(* comparison exactly when the two sides are otherwise equal.               *)
(*                                                                         *)
(* Smoothing.  The pipeline is modelled with smooth_method = "ema" and      *)
(* smooth_window = 5: the smoothed sample is (x + 2 * previous) / 3.  The   *)
(* raw samples are drawn so that the smoothed ones stay on the integer      *)
(* grid 0..MaxPrice (the recurrence is invertible, so every smoothed series *)
(* on the grid is the image of exactly one raw series).  The polynomial     *)
(* smoother ("savgol") is modelled by the one thing it does on a series     *)
(* shorter than its window, which is to raise: with the default window of   *)
(* 11 every series within MaxLen is of that kind.                           *)
(***************************************************************************)
EXTENDS Integers, Sequences, FiniteSets, TLC

(* ------------------------------ bounds --------------------------------- *)
\* Longest series of the specifications Spec and SpecPhase.
MaxLen == 8
\* Smoothed samples take the values 0..MaxPrice.
MaxPrice == 4
\* min_distance ranges over 1..MaxDist.
MaxDist == 3
\* Length of the series of SpecLong (four extrema at min_distance 3).
LongLen == 12
\* Length of the series a run of SpecRerun is repeated on, and of the series
\* of the run between the two.
RerunLen == 6
MidLen == 3
\* self_similarity is handed lists of up to MaxWaves waves with amplitudes
\* 0..MaxAmp.
MaxWaves == 3
MaxAmp == 5
\* A caller-chosen r_min, in hundredths, besides the two the code names.
RMinCaller == 50
\* An r_min above r_max, and the largest spacing of the caller's times.
RMinInverted == 90
MaxStep == 2
\* The largest smooth_window and smooth_poly handed to the constructor.
MaxWindow == 12
MaxPoly == 6
\* The amplitudes of a hand-made window, in tenths: the first one, the
\* second one at the golden ratio, and the step between the others.
WindowA1 == 1000
WindowA2 == 618
WindowStep == 100
\* The length and the highest smoothed price of the series of two runs that
\* are interleaved.
PairLen == 6
PairPrice == 3

(* ------------------------- program constants --------------------------- *)
\* smooth_window of the "1m" timeframe; w = max(window, 5).
SmoothWindow == 5
MinWindow == 5
\* PatternSystem's defaults: smooth_window = 11, smooth_poly = 3.
DefaultWindow == 11
SmoothPoly == 3
\* lambda1, lambda2 in hundredths.
Lambda1Pct == 85
Lambda2Pct == 70
\* alpha in thousandths; r_min, r_max in hundredths.
AlphaMil == 618
RMinDefault == 30
RMinApp == 25
RMaxPct == 80
\* quality weights and threshold in hundredths.
QualityW1 == 40
QualityW2 == 30
QualityW3 == 30
QualityThresh == 55
\* _f_ratio: band [0.3, 0.8] in hundredths, peak 0.618, width 0.318 and the
\* fallback centre 0.55 in thousandths.
FitLowPct == 30
FitHighPct == 80
GoldenMil == 618
GoldenWidthMil == 318
FallbackMil == 550

(* ------------------------------ helpers -------------------------------- *)
Abs(x) == IF x < 0 THEN -x ELSE x

Max2(a, b) == IF a >= b THEN a ELSE b

RECURSIVE Gcd(_, _)
Gcd(a, b) == IF b = 0 THEN a ELSE Gcd(b, a % b)

Lcm(a, b) == (a * b) \div Gcd(a, b)

RECURSIVE SumSeq(_)
SumSeq(s) == IF s = << >> THEN 0 ELSE Head(s) + SumSeq(Tail(s))

RECURSIVE LcmSeq(_)
LcmSeq(s) == IF s = << >> THEN 1 ELSE Lcm(Head(s), LcmSeq(Tail(s)))

SelectValid(ts) == SelectSeq(ts, LAMBDA t : t.is_valid)

(* --------------------- DataProcessor.smooth (ema) ---------------------- *)
\* w = max(self.window, 5)
EmaWindow == Max2(SmoothWindow, MinWindow)

\* ewm(span = w, adjust = False): y = alpha * x + (1 - alpha) * y_prev with
\* alpha = 2 / (w + 1); the first smoothed sample is the first raw sample.
\* prev is << >> before the first sample, else <<y_prev>>.
EmaStep(prev, x) ==
    IF prev = << >> THEN x
    ELSE (2 * x + (EmaWindow - 1) * prev[1]) \div (EmaWindow + 1)

\* The raw sample whose smoothed value is v (the recurrence solved for x).
RawFor(prev, v) ==
    IF prev = << >> THEN v
    ELSE ((EmaWindow + 1) * v - (EmaWindow - 1) * prev[1]) \div 2

(* --------------------------- ExtremaDetector --------------------------- *)
Extremum(i, price, kind) ==
    [index |-> i, time |-> i, price |-> price, kind |-> kind]

\* extrema = []
FreshExtrema == << >>

\* extrema = []; last_idx = -self.min_distance
ScanInit(d) == [found |-> FreshExtrema, last_idx |-> -d]

\* Variant: last_idx is not moved to the accepted index.
ScanBody_NoCursor(acc, i, pPrev, pI, pNext, d) ==
    LET dI    == pI - pPrev
        dNext == pNext - pI
    IN  IF (i - acc.last_idx) < d THEN acc
        ELSE IF dI > 0 /\ dNext < 0
             THEN [acc EXCEPT !.found = Append(@, Extremum(i, pI, "max"))]
        ELSE IF dI < 0 /\ dNext > 0
             THEN [acc EXCEPT !.found = Append(@, Extremum(i, pI, "min"))]
        ELSE acc

\* Variant: a flat step before the turn is enough, delta[i] >= 0 and
\* delta[i] <= 0.
ScanBody_Weak(acc, i, pPrev, pI, pNext, d) ==
    LET dI    == pI - pPrev
        dNext == pNext - pI
    IN  IF (i - acc.last_idx) < d THEN acc
        ELSE IF dI >= 0 /\ dNext < 0
             THEN [found    |-> Append(acc.found, Extremum(i, pI, "max")),
                   last_idx |-> i]
        ELSE IF dI <= 0 /\ dNext > 0
             THEN [found    |-> Append(acc.found, Extremum(i, pI, "min")),
                   last_idx |-> i]
        ELSE acc

\* Variant: the two kinds exchanged.
ScanBody_Exchanged(acc, i, pPrev, pI, pNext, d) ==
    LET dI    == pI - pPrev
        dNext == pNext - pI
    IN  IF (i - acc.last_idx) < d THEN acc
        ELSE IF dI > 0 /\ dNext < 0
             THEN [found    |-> Append(acc.found, Extremum(i, pI, "min")),
                   last_idx |-> i]
        ELSE IF dI < 0 /\ dNext > 0
             THEN [found    |-> Append(acc.found, Extremum(i, pI, "max")),
                   last_idx |-> i]
        ELSE acc

\* One iteration of the loop over i in range(1, len(p) - 1), reading
\* delta[i] = p[i] - p[i-1] and delta[i+1] = p[i+1] - p[i].
ScanBody(acc, i, pPrev, pI, pNext, d) ==
    LET dI    == pI - pPrev
        dNext == pNext - pI
    IN  IF (i - acc.last_idx) < d THEN acc
        ELSE IF dI > 0 /\ dNext < 0
             THEN [found    |-> Append(acc.found, Extremum(i, pI, "max")),
                   last_idx |-> i]
        ELSE IF dI < 0 /\ dNext > 0
             THEN [found    |-> Append(acc.found, Extremum(i, pI, "min")),
                   last_idx |-> i]
        ELSE acc

\* Variant: of two adjacent extrema of a kind the first is always kept.
FilterStep_KeepFirst(filtered, e) ==
    IF e.kind = filtered[Len(filtered)].kind THEN filtered
    ELSE Append(filtered, e)

\* The body of the loop of _filter_alternating for one extremum e.
FilterStep(filtered, e) ==
    LET k    == Len(filtered)
        prev == filtered[k]
    IN  IF e.kind = prev.kind
        THEN IF e.kind = "max" /\ e.price > prev.price
             THEN [filtered EXCEPT ![k] = e]
             ELSE IF e.kind = "min" /\ e.price < prev.price
                  THEN [filtered EXCEPT ![k] = e]
                  ELSE filtered
        ELSE Append(filtered, e)

RECURSIVE FilterFrom(_, _)
FilterFrom(filtered, rest) ==
    IF rest = << >> THEN filtered
    ELSE FilterFrom(FilterStep(filtered, Head(rest)), Tail(rest))

\* Variant: the post-pass returns the scan's list as it is.
FilterAlternating_Skipped(ex) == ex

\* _filter_alternating(extrema, p)
FilterAlternating(ex) ==
    IF ex = << >> THEN ex ELSE FilterFrom(<<Head(ex)>>, Tail(ex))

(* ----------------------------- WaveBuilder ----------------------------- *)
\* A duration is whole + eps * 1e-9: T = abs(e.time - s.time) or 1e-9
Duration(s, e) ==
    LET dt == Abs(e.time - s.time)
    IN  IF dt # 0 THEN [whole |-> dt, eps |-> 0] ELSE [whole |-> 0, eps |-> 1]

IsTiny(T) == T.whole = 0

\* One Wave; velocity V = A / T is kept as the pair (A, T).  The angle
\* arctan(A / T) is read by no stage and is left out.
BuildWave(j, s, e) ==
    LET A == Abs(e.price - s.price)
        T == Duration(s, e)
    IN  [idx       |-> j,
         start     |-> s,
         end       |-> e,
         amplitude |-> A,
         duration  |-> T,
         velocity  |-> [num |-> A, den |-> T],
         direction |-> IF e.price > s.price THEN "up" ELSE "down",
         wave_type |-> "unknown"]

\* Variant: the loop stops one pair early, range(len(extrema) - 2).
Build_OneShort(ex) ==
    [j \in 1..(Len(ex) - 2) |-> BuildWave(j - 1, ex[j], ex[j + 1])]

\* for j in range(len(extrema) - 1)
Build(ex) == [j \in 1..(Len(ex) - 1) |-> BuildWave(j - 1, ex[j], ex[j + 1])]

(* ---------------------------- WaveClassifier --------------------------- *)
Amplitudes(ws) == [k \in 1..Len(ws) |-> ws[k].amplitude]

\* The least common multiple of the whole durations of the batch.
DurationLcm(ws) ==
    LcmSeq([k \in 1..Len(ws) |->
               IF IsTiny(ws[k].duration) THEN 1 ELSE ws[k].duration.whole])

\* A velocity A / T is VelHuge * 1e9 + VelFine / L (L = DurationLcm): the
\* first part for a duration of 1e-9, the second for a whole duration.
VelHuge(w) == IF IsTiny(w.duration) THEN w.amplitude ELSE 0

VelFine(w, L) ==
    IF IsTiny(w.duration) THEN 0 ELSE w.amplitude * (L \div w.duration.whole)

\* w.amplitude > self.lambda1 * A_mean
AboveMeanAmplitude(w, ws) ==
    100 * Len(ws) * w.amplitude > Lambda1Pct * SumSeq(Amplitudes(ws))

\* w.velocity > self.lambda2 * V_mean
AboveMeanVelocity(w, ws) ==
    LET L    == DurationLcm(ws)
        M    == Len(ws)
        hSum == SumSeq([k \in 1..M |-> VelHuge(ws[k])])
        fSum == SumSeq([k \in 1..M |-> VelFine(ws[k], L)])
    IN  IF 100 * M * VelHuge(w) # Lambda2Pct * hSum
        THEN 100 * M * VelHuge(w) > Lambda2Pct * hSum
        ELSE 100 * M * VelFine(w, L) > Lambda2Pct * fSum

\* Variant: one of the two tests is enough for an impulse.
WaveType_Either(w, ws) ==
    IF AboveMeanAmplitude(w, ws) \/ AboveMeanVelocity(w, ws)
    THEN "impulse" ELSE "correction"

WaveType(w, ws) ==
    IF AboveMeanAmplitude(w, ws) /\ AboveMeanVelocity(w, ws)
    THEN "impulse" ELSE "correction"

\* classify(waves)
Classify(ws) ==
    IF ws = << >> THEN ws
    ELSE [k \in 1..Len(ws) |-> [ws[k] EXCEPT !.wave_type = WaveType(ws[k], ws)]]

(* ----------------------- StructuralTripleDetector ---------------------- *)
\* R = w2.amplitude / (w1.amplitude + 1e-9): the ratio num / (den + eps * 1e-9)
CorrectionRatio(w1, w2) ==
    [num |-> w2.amplitude, den |-> w1.amplitude, eps |-> 1]

\* pct / 100 <= R
RatioAtLeast(R, pct) ==
    \/ pct * R.den < 100 * R.num
    \/ pct * R.den = 100 * R.num /\ pct * R.eps <= 0

\* R <= pct / 100
RatioAtMost(R, pct) ==
    \/ 100 * R.num < pct * R.den
    \/ 100 * R.num = pct * R.den /\ pct * R.eps >= 0

\* w3.amplitude >= self.alpha * w1.amplitude
Continues(w1, w3) == 1000 * w3.amplitude >= AlphaMil * w1.amplitude

\* Variant: neither the type of the middle wave nor r_max is checked.
TripleValid_Loose(w1, w2, w3, R, rmin) ==
    /\ w1.wave_type = "impulse"
    /\ w3.wave_type = "impulse"
    /\ Continues(w1, w3)
    /\ RatioAtLeast(R, rmin)
    /\ ~(w1.direction = w2.direction)

\* valid = (...); if w1.direction == w2.direction: valid = False
TripleValid(w1, w2, w3, R, rmin) ==
    /\ w1.wave_type = "impulse"
    /\ w2.wave_type = "correction"
    /\ w3.wave_type = "impulse"
    /\ Continues(w1, w3)
    /\ RatioAtLeast(R, rmin)
    /\ RatioAtMost(R, RMaxPct)
    /\ ~(w1.direction = w2.direction)

MakeTriple(w1, w2, w3, rmin) ==
    LET R == CorrectionRatio(w1, w2)
    IN  [w1               |-> w1,
         w2               |-> w2,
         w3               |-> w3,
         correction_ratio |-> R,
         quality_score    |-> [num |-> 0, den |-> 1],
         phase            |-> 0,
         is_valid         |-> TripleValid(w1, w2, w3, R, rmin)]

\* Variant: only the valid windows are appended.
FindTriples_OnlyValid(ws, rmin) ==
    SelectValid([i \in 1..(Len(ws) - 2) |->
                    MakeTriple(ws[i], ws[i + 1], ws[i + 2], rmin)])

\* Variant: the windows are appended from the last one to the first.
FindTriples_Backwards(ws, rmin) ==
    [i \in 1..(Len(ws) - 2) |->
        MakeTriple(ws[Len(ws) - 1 - i], ws[Len(ws) - i], ws[Len(ws) + 1 - i],
                   rmin)]

\* for i in range(len(waves) - 2)
FindTriples(ws, rmin) ==
    [i \in 1..(Len(ws) - 2) |-> MakeTriple(ws[i], ws[i + 1], ws[i + 2], rmin)]

(* ----------------------------- QualityMetric --------------------------- *)
\* Variant: outside [0.3, 0.8] the score is not floored at 0.
FRatio_Unfloored(t) ==
    LET R == t.correction_ratio
    IN  IF RatioAtLeast(R, FitLowPct) /\ RatioAtMost(R, FitHighPct)
        THEN [num |-> GoldenWidthMil * R.den
                        - Abs(1000 * R.num - GoldenMil * R.den),
              den |-> GoldenWidthMil * R.den,
              eps |-> IF 1000 * R.num > GoldenMil * R.den THEN 1 ELSE -1]
        ELSE IF R.den = 0
             THEN [num |-> 0, den |-> 1, eps |-> 0]
             ELSE [num |-> FallbackMil * R.den
                             - Abs(1000 * R.num - FallbackMil * R.den),
                   den |-> FallbackMil * R.den,
                   eps |-> 0]

\* A sub-score is num / den + eps * (an amount of the order of 1e-9): eps is
\* the sign of what the guards of the divisors add to the exact fraction.
\* _f_ratio: 1 - |R - 0.618| / 0.318 inside [0.3, 0.8], else
\* max(0, 1 - |R - 0.55| / 0.55).  R is num / (den + 1e-9), below num / den
\* when num > 0: the score is above the exact one when R is above the centre
\* and below it otherwise.
FRatio(t) ==
    LET R == t.correction_ratio
    IN  IF RatioAtLeast(R, FitLowPct) /\ RatioAtMost(R, FitHighPct)
        THEN [num |-> GoldenWidthMil * R.den
                        - Abs(1000 * R.num - GoldenMil * R.den),
              den |-> GoldenWidthMil * R.den,
              eps |-> IF 1000 * R.num > GoldenMil * R.den THEN 1 ELSE -1]
        ELSE IF R.den = 0
             THEN [num |-> 0, den |-> 1, eps |-> 0]
             ELSE LET exact == FallbackMil * R.den
                                 - Abs(1000 * R.num - FallbackMil * R.den)
                  IN  [num |-> Max2(0, exact),
                       den |-> FallbackMil * R.den,
                       eps |-> IF exact < 0 \/ R.num = 0 THEN 0
                               ELSE IF 1000 * R.num > FallbackMil * R.den
                                    THEN 1 ELSE -1]

\* _f_symmetry: 1 - |t1 - t3| / (max(t1, t3) + 1e-9)
FSymmetry(t) ==
    LET t1 == t.w1.duration.whole
        t3 == t.w3.duration.whole
        m  == Max2(t1, t3)
    IN  IF m = 0 THEN [num |-> 1, den |-> 1, eps |-> 0]
        ELSE [num |-> m - Abs(t1 - t3), den |-> m,
              eps |-> IF t1 = t3 THEN 0 ELSE 1]

\* _f_slope: (same_impulse + diff_correct) / 2
FSlope(t) ==
    LET same_impulse == IF t.w1.direction = t.w3.direction THEN 1 ELSE 0
        diff_correct == IF t.w2.direction # t.w1.direction THEN 1 ELSE 0
    IN  [num |-> same_impulse + diff_correct, den |-> 2, eps |-> 0]

\* self.w1 * fr + self.w2 * fs + self.w3 * fsl, a fraction num / den
Quality(t) ==
    LET fr  == FRatio(t)
        fs  == FSymmetry(t)
        fsl == FSlope(t)
    IN  [num |-> QualityW1 * fr.num * fs.den * fsl.den
                 + QualityW2 * fs.num * fr.den * fsl.den
                 + QualityW3 * fsl.num * fr.den * fs.den,
         den |-> 100 * fr.den * fs.den * fsl.den]

\* t.quality_score < self.threshold
BelowThreshold(q) == 100 * q.num < QualityThresh * q.den

\* Variant: the score replaces the validity, is_valid = (score >= threshold).
ScoreTriple_Revalidates(t) ==
    LET q == Quality(t)
    IN  [t EXCEPT !.quality_score = q, !.is_valid = ~BelowThreshold(q)]

\* Variant: the score is stored and never demotes a triple.
ScoreTriple_NoGate(t) == [t EXCEPT !.quality_score = Quality(t)]

\* Variant: score also stores the ratio without the guard of the divisor.
ScoreTriple_StoresExact(t) ==
    LET q == Quality(t)
    IN  [t EXCEPT !.quality_score = q,
                  !.is_valid = IF BelowThreshold(q) THEN FALSE ELSE @,
                  !.correction_ratio = [@ EXCEPT !.eps = 0]]

\* The body of the loop of score for one triple.
ScoreTriple(t) ==
    LET q == Quality(t)
    IN  [t EXCEPT !.quality_score = q,
                  !.is_valid = IF BelowThreshold(q) THEN FALSE ELSE @]

\* score(triples)
Score(ts) == [k \in 1..Len(ts) |-> ScoreTriple(ts[k])]

(* ------------------------------ PhaseModel ----------------------------- *)
NoStructure == "No valid structure found"

\* Variant: the boundaries of the phases compared with < instead of <=.
PhaseOf_Strict(last, current_idx) ==
    LET w1_end == last.w1.end.index
        w2_end == last.w2.end.index
        w3_end == last.w3.end.index
    IN  IF current_idx < w1_end
        THEN [phase |-> 1, desc |-> "Phase 1 - First Impulse"]
        ELSE IF current_idx < w2_end
             THEN [phase |-> 2, desc |-> "Phase 2 - Correction"]
        ELSE IF current_idx < w3_end
             THEN [phase |-> 3, desc |-> "Phase 3 - Continuation Impulse"]
        ELSE [phase |-> 3, desc |-> "Phase 3+ - Post-structure zone"]

\* The phase and description for current_idx against the triple last.
PhaseOf(last, current_idx) ==
    LET w1_end == last.w1.end.index
        w2_end == last.w2.end.index
        w3_end == last.w3.end.index
    IN  IF current_idx <= w1_end
        THEN [phase |-> 1, desc |-> "Phase 1 - First Impulse"]
        ELSE IF current_idx <= w2_end
             THEN [phase |-> 2, desc |-> "Phase 2 - Correction"]
        ELSE IF current_idx <= w3_end
             THEN [phase |-> 3, desc |-> "Phase 3 - Continuation Impulse"]
        ELSE [phase |-> 3, desc |-> "Phase 3+ - Post-structure zone"]

\* Variant: the phase is written onto the most recent valid triple only.
WritePhase_LastOnly(ts, phase) ==
    [k \in 1..Len(ts) |->
        IF ts[k].is_valid /\ (\A j \in (k + 1)..Len(ts) : ~ts[j].is_valid)
        THEN [ts[k] EXCEPT !.phase = phase]
        ELSE ts[k]]

\* for t in valid: t.phase = phase
WritePhase(ts, phase) ==
    [k \in 1..Len(ts) |->
        IF ts[k].is_valid THEN [ts[k] EXCEPT !.phase = phase] ELSE ts[k]]

\* assign(triples, current_idx): the returned pair and the triples after it.
Assign(ts, current_idx) ==
    LET valid == SelectValid(ts)
    IN  IF valid = << >>
        THEN [phase |-> 0, desc |-> NoStructure, triples |-> ts]
        ELSE LET r == PhaseOf(valid[Len(valid)], current_idx)
             IN  [phase   |-> r.phase,
                  desc    |-> r.desc,
                  triples |-> WritePhase(ts, r.phase)]

(* --------------------- float64 sums of equal ratios -------------------- *)
\* np.mean and np.std work on float64.  Where their rounding decides an
\* outcome (the mean of equal ratios, and with it whether the deviations
\* are exactly zero) the arithmetic is carried out here at full width.  A
\* positive double is [mant, exp]: mant the Precision bits of the
\* significand, most significant first, mant[1] = 1; its value is the
\* integer written by mant times 2^exp.  Rounding is to nearest, ties to
\* even.
Precision == 53

FloatZero == [mant |-> << >>, exp |-> 0]

Zeros(k) == [i \in 1..k |-> 0]

\* The bits of a natural number, most significant first.
RECURSIVE NatBits(_)
NatBits(k) == IF k = 0 THEN << >> ELSE Append(NatBits(k \div 2), k % 2)

\* The number written by at most Chunk bits.
RECURSIVE BitsValue(_)
BitsValue(s) ==
    IF s = << >> THEN 0
    ELSE 2 * BitsValue(SubSeq(s, 1, Len(s) - 1)) + s[Len(s)]

\* Long division of the number written by bits by d: quotient bits of the
\* same length, and the remainder.  The remainder after i bits is taken
\* Chunk bits at a time.
Chunk == 16

LongDiv(bits, d) ==
    LET Whole[c \in 0..(Len(bits) \div Chunk)] ==
            IF c = 0 THEN 0
            ELSE (Whole[c - 1] * 2^Chunk
                  + BitsValue(SubSeq(bits, (c - 1) * Chunk + 1, c * Chunk))) % d
        After(i) ==
            (Whole[i \div Chunk] * 2^(i % Chunk)
             + BitsValue(SubSeq(bits, (i \div Chunk) * Chunk + 1, i))) % d
    IN  [quot |-> [i \in 1..Len(bits) |-> (2 * After(i - 1) + bits[i]) \div d],
         rem  |-> After(Len(bits))]

LeadingZeros(s) ==
    IF \A i \in 1..Len(s) : s[i] = 0 THEN Len(s)
    ELSE (CHOOSE i \in 1..Len(s) :
              s[i] = 1 /\ \A j \in 1..(i - 1) : s[j] = 0) - 1

\* bits plus one, for bits that are not all 1.
Increment(bits) ==
    [i \in 1..Len(bits) |->
        IF \A j \in (i + 1)..Len(bits) : bits[j] = 1
        THEN 1 - bits[i] ELSE bits[i]]

\* The double nearest to (the number written by s) * 2^w, plus a positive
\* amount below 2^w when sticky.
RoundBits(s, w, sticky) ==
    LET z == LeadingZeros(s)
        t == SubSeq(s, z + 1, Len(s))
        L == Len(t)
    IN  IF L = 0 THEN FloatZero
        ELSE IF L <= Precision
        THEN [mant |-> t \o Zeros(Precision - L), exp |-> w - (Precision - L)]
        ELSE LET keep  == SubSeq(t, 1, Precision)
                 guard == t[Precision + 1]
                 rest  == sticky \/ \E i \in (Precision + 2)..L : t[i] = 1
                 e     == w + (L - Precision)
                 up    == guard = 1 /\ (rest \/ keep[Precision] = 1)
             IN  IF ~up THEN [mant |-> keep, exp |-> e]
                 ELSE IF \A i \in 1..Precision : keep[i] = 1
                 THEN [mant |-> <<1>> \o Zeros(Precision - 1), exp |-> e + 1]
                 ELSE [mant |-> Increment(keep), exp |-> e]

\* (the number written by bits) * 2^w / d for 0 < d < 256, rounded.
DivRound(bits, w, d) ==
    LET pad == Precision + 8
        q   == LongDiv(bits \o Zeros(pad), d)
    IN  RoundBits(q.quot, w - pad, q.rem # 0)

\* w1.amplitude / w2.amplitude for whole amplitudes a >= 0, b > 0.
FloatOfRatio(a, b) == IF a = 0 THEN FloatZero ELSE DivRound(NatBits(a), 0, b)

\* x / count
FloatDivInt(x, count) ==
    IF x = FloatZero THEN FloatZero ELSE DivRound(x.mant, x.exp, count)

\* x + y for doubles x, y >= 0
FloatAdd(x, y) ==
    IF x = FloatZero THEN y
    ELSE IF y = FloatZero THEN x
    ELSE LET hi == IF x.exp >= y.exp THEN x ELSE y
             lo == IF x.exp >= y.exp THEN y ELSE x
             d  == hi.exp - lo.exp
             X  == <<0>> \o hi.mant \o Zeros(d)
             Y  == Zeros(d + 1) \o lo.mant
             N  == Precision + d + 1
             \* the carry into place i: a place to its right makes one and
             \* every place between passes it on
             Carry(i) ==
                 IF \E j \in (i + 1)..N :
                        /\ X[j] + Y[j] = 2
                        /\ \A k \in (i + 1)..(j - 1) : X[k] + Y[k] = 1
                 THEN 1 ELSE 0
         IN  RoundBits([i \in 1..N |-> (X[i] + Y[i] + Carry(i)) % 2],
                       lo.exp, FALSE)

\* ((x + x) + x) + ..., count terms
RECURSIVE RunningSum(_, _)
RunningSum(x, count) ==
    IF count = 0 THEN FloatZero ELSE FloatAdd(RunningSum(x, count - 1), x)

\* np.add.reduce on count < 128 copies of x: below 8 a running sum; from 8
\* on, eight running sums of count \div 8 terms added in pairs (three exact
\* doublings), then the count % 8 remaining terms one by one.
RECURSIVE AddTail(_, _, _)
AddTail(s, x, count) ==
    IF count = 0 THEN s ELSE AddTail(FloatAdd(s, x), x, count - 1)

FloatSum(x, count) ==
    IF count < 8 THEN RunningSum(x, count)
    ELSE LET r == RunningSum(x, count \div 8)
             eight == IF r = FloatZero THEN r ELSE [r EXCEPT !.exp = @ + 3]
         IN  AddTail(eight, x, count % 8)

\* np.mean of count copies of x
FloatMean(x, count) == FloatDivInt(FloatSum(x, count), count)

(* -------------------------- FractalityAnalyzer ------------------------- *)
\* w2.amplitude > 1e-9, for an amplitude on the integer grid
AboveEpsilon(w) == w.amplitude > 0

\* The ratios in the order of the two loops, each a fraction num / den.
Ratios(ws1, ws2) ==
    LET n1 == Len(ws1)
        n2 == Len(ws2)
        all == [k \in 1..(n1 * n2) |->
                   [num |-> ws1[((k - 1) \div n2) + 1].amplitude,
                    den |-> ws2[((k - 1) % n2) + 1].amplitude,
                    ok  |-> AboveEpsilon(ws2[((k - 1) % n2) + 1])]]
    IN  SelectSeq(all, LAMBDA r : r.ok)

\* The ratios over their common denominator.
RatioLcm(rs) == LcmSeq([k \in 1..Len(rs) |-> rs[k].den])

Scaled(rs) == [k \in 1..Len(rs) |-> rs[k].num * (RatioLcm(rs) \div rs[k].den)]

\* The k-th smallest element of s.
KthSmallest(s, k) ==
    CHOOSE v \in {s[i] : i \in 1..Len(s)} :
        /\ Cardinality({i \in 1..Len(s) : s[i] < v}) < k
        /\ k <= Cardinality({i \in 1..Len(s) : s[i] <= v})

\* Variant: the median of the scaled ratios, not divided back.
Median_Unscaled(rs) ==
    LET s == Scaled(rs)
        m == Len(s)
    IN  IF m % 2 = 1
        THEN [num |-> KthSmallest(s, (m + 1) \div 2), den |-> 1]
        ELSE [num |-> KthSmallest(s, m \div 2) + KthSmallest(s, (m \div 2) + 1),
              den |-> 2]

\* np.median(ratios), a fraction num / den
Median(rs) ==
    LET s == Scaled(rs)
        m == Len(s)
    IN  IF m % 2 = 1
        THEN [num |-> KthSmallest(s, (m + 1) \div 2), den |-> RatioLcm(rs)]
        ELSE [num |-> KthSmallest(s, m \div 2) + KthSmallest(s, (m \div 2) + 1),
              den |-> 2 * RatioLcm(rs)]

\* np.std(ratios) / (np.mean(ratios) + 1e-9).  Its square is
\* var_num / (sum_sq + guard): var_num = m * sum of squares - sum^2 and
\* sum_sq = sum^2 of the scaled ratios.  zero says that the float64 result
\* is 0.0: every deviation ratio - mean is 0.0.
CoefficientOfVariation(rs) ==
    LET s  == Scaled(rs)
        m  == Len(s)
        sm == SumSeq(s)
        sq == SumSeq([k \in 1..m |-> s[k] * s[k]])
        x  == FloatOfRatio(rs[1].num, rs[1].den)
    IN  [var_num |-> m * sq - sm * sm,
         sum_sq  |-> sm * sm,
         eps     |-> 1,
         zero    |-> m * sq - sm * sm = 0 /\ FloatMean(x, m) = x]

\* Variant: the threshold 0.5.
BelowThirty_Half(cv) == cv.var_num <= (25 * cv.sum_sq) \div 100

\* cv < 0.3: std < 0.3 * (mean + 1e-9), squared; equality of the whole parts
\* is decided by the guard.
BelowThirty(cv) == cv.var_num <= (9 * cv.sum_sq) \div 100

NoCoefficient == << >>

\* self_similarity(waves_tf1, waves_tf2)
SelfSimilarity(ws1, ws2) ==
    IF ws1 = << >> \/ ws2 = << >>
    THEN [coefficient |-> NoCoefficient, stable |-> FALSE]
    ELSE LET rs == Ratios(ws1, ws2)
         IN  IF rs = << >>
             THEN [coefficient |-> NoCoefficient, stable |-> FALSE]
             ELSE [coefficient |-> <<Median(rs)>>,
                   cv          |-> CoefficientOfVariation(rs),
                   stable      |-> BelowThirty(CoefficientOfVariation(rs)),
                   n_pairs     |-> Len(rs)]

(* --------------------------- _box_by_pattern --------------------------- *)
\* max(valid_big, key = lambda t: t.w3.end.index) from the k-th triple on,
\* best being the first of the highest so far.
RECURSIVE MaxFrom(_, _, _)
MaxFrom(valid, k, best) ==
    IF k > Len(valid) THEN best
    ELSE MaxFrom(valid, k + 1,
                 IF valid[k].w3.end.index > best.w3.end.index
                 THEN valid[k] ELSE best)

\* last = max(valid_big, key = lambda t: t.w3.end.index), valid_big not
\* empty.
BoxLast(valid) == MaxFrom(valid, 2, valid[1])

(* ------------------------------ the report ----------------------------- *)
\* _build_report: the values the report prints, in its order.
BuildReport(ws, valid, phase_desc, nn) ==
    [bars        |-> nn,
     waves       |-> Len(ws),
     impulses    |-> Len(SelectSeq(ws, LAMBDA w : w.wave_type = "impulse")),
     corrections |-> Len(SelectSeq(ws, LAMBDA w : w.wave_type = "correction")),
     valid       |-> Len(valid),
     structures  |-> [k \in 1..Len(valid) |->
                        [A1    |-> valid[k].w1.amplitude,
                         A2    |-> valid[k].w2.amplitude,
                         A3    |-> valid[k].w3.amplitude,
                         R     |-> valid[k].correction_ratio,
                         S     |-> valid[k].quality_score,
                         phase |-> valid[k].phase]],
     phase_desc  |-> phase_desc]

(* ============================ the state ================================ *)
VARIABLES
    pc,             \* where the current call of run is
    min_distance,   \* self.detector.min_distance
    r_min,          \* self.tripler.r_min, in hundredths
    input,          \* the prices handed to run, when the caller keeps them
    stored,         \* TRUE iff input holds the series of the current run
    n,              \* len(df)
    fed,            \* samples smoothed and scanned so far
    buf,            \* the last two smoothed samples
    acc,            \* the scan of detect: extrema found, last_idx
    extrema,        \* result of detect
    waves,          \* result of build, then of classify
    triples,        \* result of find_triples, then of score and assign
    current_idx,    \* the bar index handed to assign
    current_phase,
    phase_desc,
    valid_triples,
    report,
    runs,           \* calls of run on this PatternSystem so far
    ref,            \* << >>, or the input and result of the first call
    smooth_method,  \* self.processor.method
    smooth_window,  \* self.processor.window
    time_step,      \* the times handed to run are time_step * index
    other,          \* << >>, or the locals of a second call that is waiting
    waves_tf1,      \* the two wave lists handed to self_similarity
    waves_tf2,
    frac,           \* << >>, or the result of self_similarity
    smooth_poly,    \* self.processor.poly
    window_length,  \* 0, or the wl smooth has computed for savgol_filter
    tf_selector,        \* value of the radio items "tf-selector"
    tf_small_selector,  \* value of the radio items "tf-small-selector"
    pending,        \* << >>, or the arguments of a callback not yet run
    suggested       \* << >>, or the last call of suggest_small_tf

cfg == <<min_distance, r_min, smooth_method, smooth_window, smooth_poly>>
\* The timeframe selectors of the dashboard and their callback.
panel == <<tf_selector, tf_small_selector, pending, suggested>>
side == <<other, waves_tf1, waves_tf2, frac, window_length, panel>>
\* What no stage of run writes.
held == <<cfg, time_step, side>>
call == <<input, stored, n>>
scan == <<fed, buf, acc>>
outs == <<extrema, waves, triples, current_idx, current_phase, phase_desc,
          valid_triples, report>>
vars == <<pc, cfg, call, scan, outs, runs, ref, time_step, side>>

Prices == 0..MaxPrice

NoReport == BuildReport(<< >>, << >>, "", 0)

\* PatternSystem.__init__: the configuration is stored, nothing has run.
InitCfg(dists, rmins, smoothers, steps) ==
    /\ pc = "idle"
    /\ min_distance \in dists
    /\ r_min \in rmins
    /\ \E sm \in smoothers :
         /\ smooth_method = sm[1]
         /\ smooth_window = sm[2]
         /\ smooth_poly = sm[3]
    /\ window_length = 0
    /\ tf_selector = "1 Day"
    /\ tf_small_selector = "1 Hour"
    /\ pending = << >>
    /\ suggested = << >>
    /\ time_step \in steps
    /\ other = << >>
    /\ waves_tf1 = << >>
    /\ waves_tf2 = << >>
    /\ frac = << >>
    /\ input = << >>
    /\ stored = FALSE
    /\ n = 0
    /\ fed = 0
    /\ buf = << >>
    /\ acc = ScanInit(0)
    /\ extrema = << >>
    /\ waves = << >>
    /\ triples = << >>
    /\ current_idx = 0
    /\ current_phase = 0
    /\ phase_desc = ""
    /\ valid_triples = << >>
    /\ report = NoReport
    /\ runs = 0
    /\ ref = << >>

\* The "ema" smoother of window SmoothWindow; times are the indices.
InitWith(dists, rmins) == InitCfg(dists, rmins, {<<"ema", SmoothWindow, SmoothPoly>>}, {1})

\* Variant: the list of extrema of detect outlives the call.
Enter_KeepsExtrema(nn) ==
    /\ pc' = "scan"
    /\ n' = nn
    /\ fed' = 0
    /\ buf' = << >>
    /\ acc' = [found |-> acc.found, last_idx |-> -min_distance]
    /\ extrema' = << >>
    /\ waves' = << >>
    /\ triples' = << >>
    /\ current_idx' = 0
    /\ current_phase' = 0
    /\ phase_desc' = ""
    /\ valid_triples' = << >>
    /\ report' = NoReport
    /\ runs' = runs + 1

\* The locals of a call of run on a series of nn samples.
Enter(nn) ==
    /\ pc' = "scan"
    /\ n' = nn
    /\ fed' = 0
    /\ buf' = << >>
    /\ acc' = ScanInit(min_distance)
    /\ extrema' = << >>
    /\ waves' = << >>
    /\ triples' = << >>
    /\ current_idx' = 0
    /\ current_phase' = 0
    /\ phase_desc' = ""
    /\ valid_triples' = << >>
    /\ report' = NoReport
    /\ runs' = runs + 1

\* run(prices) on a series of nn samples whose values are drawn as the
\* stages read them.
Start(nn) ==
    /\ pc = "idle"
    /\ Enter(nn)
    /\ UNCHANGED <<held, input, stored, ref>>

\* The raw samples the next step may read.
NextRaw ==
    LET prev == IF buf = << >> THEN << >> ELSE <<buf[Len(buf)]>>
    IN  IF stored THEN {input[fed + 1]}
        ELSE {RawFor(prev, v) : v \in Prices}

\* smooth and detect for one more sample: the sample of index fed is
\* smoothed, and with it the loop of detect runs for i = fed - 1.
SampleWith(keep) ==
    /\ pc = "scan"
    /\ smooth_method = "ema"
    /\ fed < n
    /\ \E x \in NextRaw :
         LET prev == IF buf = << >> THEN << >> ELSE <<buf[Len(buf)]>>
             sm   == EmaStep(prev, x)
         IN  /\ buf' = IF Len(buf) < 2 THEN Append(buf, sm) ELSE <<buf[2], sm>>
             /\ acc' = IF Len(buf) = 2
                       THEN ScanBody(acc, fed - 1, buf[1], buf[2], sm,
                                     min_distance)
                       ELSE acc
             /\ input' = IF keep THEN Append(input, x) ELSE input
    /\ fed' = fed + 1
    /\ UNCHANGED <<pc, held, stored, n, outs, runs, ref>>

\* The series is read and forgotten.
Sample == SampleWith(FALSE)

\* The window of the polynomial smoother: w = max(self.window, 5), made odd,
\* and at least poly + 2.
WindowLengthOf(window, poly) ==
    LET w  == Max2(window, MinWindow)
        wl == IF w % 2 = 1 THEN w ELSE w + 1
    IN  Max2(wl, poly + 2)

WindowLength == WindowLengthOf(smooth_window, smooth_poly)

\* smooth with method "savgol": savgol_filter(p, window_length = wl, ...)
\* raises ValueError when wl exceeds the number of samples (mode "interp").
SmoothRaises ==
    /\ pc = "scan"
    /\ fed = 0
    /\ smooth_method = "savgol"
    /\ WindowLength > n
    /\ pc' = "raised"
    /\ UNCHANGED <<held, call, scan, outs, runs, ref>>

\* detect on an empty series: p[0] raises IndexError (the ema of an empty
\* series is the empty series, so smooth itself returns).
DetectRaises ==
    /\ pc = "scan"
    /\ smooth_method = "ema"
    /\ n = 0
    /\ pc' = "raised"
    /\ UNCHANGED <<held, call, scan, outs, runs, ref>>

\* The end of detect: extrema = self._filter_alternating(extrema, p).
\* The smoothed samples are read by no later stage and are dropped.
Detect ==
    /\ pc = "scan"
    /\ n > 0
    /\ fed = n
    /\ extrema' = FilterAlternating(acc.found)
    /\ buf' = << >>
    /\ pc' = "detected"
    /\ UNCHANGED <<held, call, fed, acc, waves, triples, current_idx,
                   current_phase, phase_desc, valid_triples, report, runs,
                   ref>>

\* waves = self.builder.build(extrema)
BuildWaves ==
    /\ pc = "detected"
    /\ waves' = Build(extrema)
    /\ pc' = "built"
    /\ UNCHANGED <<held, call, scan, extrema, triples, current_idx,
                   current_phase, phase_desc, valid_triples, report, runs,
                   ref>>

\* waves = self.classifier.classify(waves)
ClassifyWaves ==
    /\ pc = "built"
    /\ waves' = Classify(waves)
    /\ pc' = "classified"
    /\ UNCHANGED <<held, call, scan, extrema, triples, current_idx,
                   current_phase, phase_desc, valid_triples, report, runs,
                   ref>>

\* triples = self.tripler.find_triples(waves)
DetectTriples ==
    /\ pc = "classified"
    /\ triples' = FindTriples(waves, r_min)
    /\ pc' = "tripled"
    /\ UNCHANGED <<held, call, scan, extrema, waves, current_idx,
                   current_phase, phase_desc, valid_triples, report, runs,
                   ref>>

\* triples = self.metric.score(triples)
ScoreTriples ==
    /\ pc = "tripled"
    /\ triples' = Score(triples)
    /\ pc' = "scored"
    /\ UNCHANGED <<held, call, scan, extrema, waves, current_idx,
                   current_phase, phase_desc, valid_triples, report, runs,
                   ref>>

\* assign(triples, current_idx) called when run has scored the triples.
AssignAt(c) ==
    /\ pc = "scored"
    /\ LET r == Assign(triples, c)
       IN  /\ current_idx' = c
           /\ current_phase' = r.phase
           /\ phase_desc' = r.desc
           /\ triples' = r.triples
    /\ pc' = "phased"
    /\ UNCHANGED <<held, call, scan, extrema, waves, valid_triples, report,
                   runs, ref>>

\* Variant: the bar before the last one is handed to assign.
AssignPhase_BarBefore == AssignAt(n - 2)

\* current_phase, phase_desc = self.phaser.assign(triples, len(df) - 1)
AssignPhase == AssignAt(n - 1)

\* valid_triples, the report, and the returned dict.
Return ==
    /\ pc = "phased"
    /\ valid_triples' = SelectValid(triples)
    /\ report' = BuildReport(waves, SelectValid(triples), phase_desc, n)
    /\ pc' = "done"
    /\ UNCHANGED <<held, call, scan, extrema, waves, triples, current_idx,
                   current_phase, phase_desc, runs, ref>>

\* The stages of run after the samples are read.
Later ==
    \/ DetectRaises
    \/ Detect
    \/ BuildWaves
    \/ ClassifyWaves
    \/ DetectTriples
    \/ ScoreTriples
    \/ Return

Stages ==
    \/ Sample
    \/ Later

(* --------------------------- specifications ---------------------------- *)
\* One call of run on any series of up to MaxLen samples.
Init == InitWith(1..MaxDist, {RMinDefault, RMinApp, RMinCaller})

Next ==
    \/ \E nn \in 0..MaxLen : Start(nn)
    \/ Stages
    \/ AssignPhase

Spec == Init /\ [][Next]_vars

\* One call of run on a series of LongLen samples at the default
\* min_distance 3 (room for four extrema, three waves, one triple), or of the
\* empty series.
InitLong == InitWith({3}, {RMinDefault})

NextLong ==
    \/ \E nn \in {0, LongLen} : Start(nn)
    \/ Stages
    \/ AssignPhase

SpecLong == InitLong /\ [][NextLong]_vars

\* assign called on the scored triples of a run with any current_idx.
NextPhase ==
    \/ \E nn \in 0..MaxLen : Start(nn)
    \/ Stages
    \/ \E c \in 0..MaxLen : AssignAt(c)

SpecPhase == Init /\ [][NextPhase]_vars

\* What a call of run returns, or that it raised.
Result ==
    [outcome       |-> pc,
     extrema       |-> extrema,
     waves         |-> waves,
     triples       |-> triples,
     valid_triples |-> valid_triples,
     current_phase |-> current_phase,
     report        |-> report]

\* The caller keeps the series and the result of the first run.
Remember ==
    /\ pc \in {"done", "raised"}
    /\ ref = << >>
    /\ ref' = <<[input |-> input, n |-> n, result |-> Result]>>
    /\ pc' = "idle"
    /\ UNCHANGED <<held, call, scan, outs, runs>>

\* The first run on the instance; its series is kept as it is read.
StartFirst(nn) == ref = << >> /\ Start(nn)

SampleFirst == ref = << >> /\ SampleWith(TRUE)

\* Another run on the same instance, on a series of its own.
StartBetween(nn) ==
    /\ ref # << >>
    /\ ~stored
    /\ runs = 1
    /\ Start(nn)

SampleLater == ref # << >> /\ Sample

\* The run in between has returned or raised.
Finish ==
    /\ pc \in {"done", "raised"}
    /\ ref # << >>
    /\ ~stored
    /\ pc' = "idle"
    /\ UNCHANGED <<held, call, scan, outs, runs, ref>>

\* run called again on the series of the first run.
StartRepeat ==
    /\ pc = "idle"
    /\ ref # << >>
    /\ ~stored
    /\ stored' = TRUE
    /\ input' = ref[1].input
    /\ Enter(ref[1].n)
    /\ UNCHANGED <<held, ref>>

\* One instance: a first run on a series of up to RerunLen samples, possibly
\* a run on another series of up to MidLen samples, and the first run again.
InitRerun == InitWith({1}, {RMinDefault})

NextRerun ==
    \/ \E nn \in 0..RerunLen : StartFirst(nn)
    \/ SampleFirst
    \/ Remember
    \/ \E nn \in 0..MidLen : StartBetween(nn)
    \/ SampleLater
    \/ Finish
    \/ StartRepeat
    \/ Later
    \/ AssignPhase

SpecRerun == InitRerun /\ [][NextRerun]_vars

\* A wave of which self_similarity reads the amplitude.
WaveOf(a) == [amplitude |-> a]

\* The caller puts one more wave on the first, on the second list.
Collect1(a) ==
    /\ pc = "idle"
    /\ frac = << >>
    /\ Len(waves_tf1) < MaxWaves
    /\ waves_tf1' = Append(waves_tf1, WaveOf(a))
    /\ UNCHANGED <<pc, cfg, call, scan, outs, runs, ref, time_step, other,
                   window_length, panel,
                   waves_tf2, frac>>

Collect2(a) ==
    /\ pc = "idle"
    /\ frac = << >>
    /\ Len(waves_tf2) < MaxWaves
    /\ waves_tf2' = Append(waves_tf2, WaveOf(a))
    /\ UNCHANGED <<pc, cfg, call, scan, outs, runs, ref, time_step, other,
                   window_length, panel,
                   waves_tf1, frac>>

\* self.fractal.self_similarity(waves_tf1, waves_tf2)
Similarity ==
    /\ pc = "idle"
    /\ frac = << >>
    /\ frac' = <<SelfSimilarity(waves_tf1, waves_tf2)>>
    /\ UNCHANGED <<pc, cfg, call, scan, outs, runs, ref, time_step, other,
                   window_length, panel,
                   waves_tf1, waves_tf2>>

\* self_similarity on any two lists of up to MaxWaves waves.
InitFractal == InitWith({3}, {RMinDefault})

NextFractal ==
    \/ \E a \in 0..MaxAmp : Collect1(a)
    \/ \E a \in 0..MaxAmp : Collect2(a)
    \/ Similarity

SpecFractal == InitFractal /\ [][NextFractal]_vars

\* One call of run under any configuration the constructor is given: the
\* "ema" smoother of the application or the default "savgol" one, an r_min
\* below or above r_max, and times spaced by time_step.
InitCalls ==
    InitCfg(1..MaxDist, {RMinDefault, RMinInverted},
            {<<"ema", SmoothWindow, SmoothPoly>>,
             <<"savgol", DefaultWindow, SmoothPoly>>},
            1..MaxStep)

NextCalls ==
    \/ Next
    \/ SmoothRaises

SpecCalls == InitCalls /\ [][NextCalls]_vars

(* ------------------------- two runs, interleaved ----------------------- *)
\* smooth on a whole series: the smoothed samples of raw[1..k].
RECURSIVE SmoothUpTo(_, _)
SmoothUpTo(raw, k) ==
    IF k = 0 THEN << >>
    ELSE LET sm == SmoothUpTo(raw, k - 1)
         IN  Append(sm, EmaStep(IF sm = << >> THEN << >> ELSE <<sm[k - 1]>>,
                                raw[k]))

SmoothAll(raw) == SmoothUpTo(raw, Len(raw))

\* The raw series whose smoothed series is sm.
RawSeries(sm) ==
    [k \in 1..Len(sm) |->
        RawFor(IF k = 1 THEN << >> ELSE <<sm[k - 1]>>, sm[k])]

\* The loop of detect from i on; p[i + 1] is the sample of index i.
RECURSIVE ScanFrom(_, _, _, _)
ScanFrom(acc0, i, p, d) ==
    IF i > Len(p) - 2 THEN acc0
    ELSE ScanFrom(ScanBody(acc0, i, p[i], p[i + 1], p[i + 2], d), i + 1, p, d)

\* detect on a whole non-empty smoothed series.
DetectOn(p, d) == FilterAlternating(ScanFrom(ScanInit(d), 1, p, d).found)

\* run(prices) from its first statement to its last, on a non-empty series.
RunAlone(raw, d, rmin) ==
    LET ex == DetectOn(SmoothAll(raw), d)
        ws == Classify(Build(ex))
        a  == Assign(Score(FindTriples(ws, rmin)), Len(raw) - 1)
        vt == SelectValid(a.triples)
    IN  [outcome       |-> "done",
         extrema       |-> ex,
         waves         |-> ws,
         triples       |-> a.triples,
         valid_triples |-> vt,
         current_phase |-> a.phase,
         report        |-> BuildReport(ws, vt, a.desc, Len(raw))]

\* A smoothed series with one valid triple.
Probe == <<0, 3, 1, 2, 0, 1>>

\* The pairs of series the caller loads: the probe and any series of
\* PairLen samples on the grid 0..PairPrice, in either order.
PairInputs ==
    LET any == {RawSeries(sm) : sm \in [1..PairLen -> 0..PairPrice]}
    IN  ({RawSeries(Probe)} \X any) \cup (any \X {RawSeries(Probe)})

\* The frame of a call of run: its instance's min_distance, its arguments
\* and its locals.  slot is 1 for the big timeframe, 2 for the small one.
Frame(slot) ==
    [slot          |-> slot,
     pc            |-> pc,
     min_distance  |-> min_distance,
     input         |-> input,
     n             |-> n,
     buf           |-> buf,
     extrema       |-> extrema,
     waves         |-> waves,
     triples       |-> triples,
     current_idx   |-> current_idx,
     current_phase |-> current_phase,
     phase_desc    |-> phase_desc,
     valid_triples |-> valid_triples,
     report        |-> report]

\* Variant: the list of extrema is kept on the instance, not in the frame.
Resume_SharedExtrema(saved) == [saved EXCEPT !.extrema = extrema]

\* The frame a run continues with is the one it was parked with.
Resume(saved) == saved

\* run_analysis: both series are loaded and both instances constructed (or
\* one instance used twice: d2 = min_distance) before either run starts.
Fork ==
    /\ pc = "idle"
    /\ other = << >>
    /\ runs = 0
    /\ \E pair \in PairInputs, d2 \in 1..2 :
         /\ input' = pair[1]
         /\ other' = <<[Frame(2) EXCEPT !.input = pair[2],
                                         !.min_distance = d2]>>
    /\ UNCHANGED <<pc, cfg, time_step, waves_tf1, waves_tf2, frac, stored, n,
                   scan, outs, runs, ref, window_length, panel>>

\* rb = sb.run(pb), rs = ss.run(ps): the call is entered.
Begin ==
    /\ pc = "idle"
    /\ other # << >>
    /\ Enter(Len(input))
    /\ UNCHANGED <<held, input, stored, ref>>

\* df = self.processor.smooth(df) on the whole series.
SmoothSeries ==
    /\ pc = "scan"
    /\ other # << >>
    /\ smooth_method = "ema"
    /\ buf' = SmoothAll(input)
    /\ pc' = "smoothed"
    /\ UNCHANGED <<held, call, fed, acc, outs, runs, ref>>

\* extrema = self.detector.detect(df) on the whole series.
DetectSeries ==
    /\ pc = "smoothed"
    /\ extrema' = DetectOn(buf, min_distance)
    /\ pc' = "detected"
    /\ UNCHANGED <<held, call, scan, waves, triples, current_idx,
                   current_phase, phase_desc, valid_triples, report, runs,
                   ref>>

\* The scheduler parks the running call and continues the other one.
Switch ==
    /\ other # << >>
    /\ frac = << >>
    /\ LET to == Resume(other[1])
       IN  /\ pc' = to.pc
           /\ min_distance' = to.min_distance
           /\ input' = to.input
           /\ n' = to.n
           /\ buf' = to.buf
           /\ extrema' = to.extrema
           /\ waves' = to.waves
           /\ triples' = to.triples
           /\ current_idx' = to.current_idx
           /\ current_phase' = to.current_phase
           /\ phase_desc' = to.phase_desc
           /\ valid_triples' = to.valid_triples
           /\ report' = to.report
           /\ other' = <<Frame(3 - to.slot)>>
    /\ UNCHANGED <<r_min, smooth_method, smooth_window, smooth_poly,
                   time_step, waves_tf1, waves_tf2, frac, window_length,
                   panel,
                   stored, fed, acc, runs, ref>>

\* frac = sb.fractal.self_similarity(rs["waves"], rb["waves"]) once both
\* runs have returned.
Join ==
    /\ pc = "done"
    /\ other # << >>
    /\ other[1].pc = "done"
    /\ frac = << >>
    /\ LET small == IF other[1].slot = 2 THEN other[1].waves ELSE waves
           big   == IF other[1].slot = 1 THEN other[1].waves ELSE waves
       IN  /\ waves_tf1' = small
           /\ waves_tf2' = big
           /\ frac' = <<SelfSimilarity(small, big)>>
    /\ UNCHANGED <<pc, cfg, time_step, other, call, scan, outs, runs, ref,
                   window_length, panel>>

InitPair == InitWith({1}, {RMinDefault})

NextPair ==
    \/ Fork
    \/ Begin
    \/ SmoothSeries
    \/ DetectSeries
    \/ BuildWaves
    \/ ClassifyWaves
    \/ DetectTriples
    \/ ScoreTriples
    \/ AssignPhase
    \/ Return
    \/ Switch
    \/ Join

SpecPair == InitPair /\ [][NextPair]_vars

\* One call of run on any series of up to RerunLen samples, which is kept
\* as it is read, at any min_distance.
InitKept == InitWith(1..MaxDist, {RMinDefault})

NextKept ==
    \/ \E nn \in 0..RerunLen : StartFirst(nn)
    \/ SampleFirst
    \/ Later
    \/ AssignPhase

SpecKept == InitKept /\ [][NextKept]_vars

(* ------------------------- a hand-made zigzag -------------------------- *)
\* The extrema of a six-point zigzag that starts with a min at price base
\* and moves by a1, a2, a3 (up, down, up).
ZigzagExtrema(base, a1, a2, a3) ==
    <<Extremum(1, base, "min"),
      Extremum(2, base + a1, "max"),
      Extremum(3, base + a1 - a2, "min"),
      Extremum(4, base + a1 - a2 + a3, "max")>>

\* The second amplitudes of the windows: the golden one and the multiples of
\* WindowStep up to the first amplitude.
SecondAmplitudes ==
    {WindowA2} \cup {k * WindowStep : k \in 0..(WindowA1 \div WindowStep)}

\* detect returns the extrema of a zigzag of six samples.
Zigzag ==
    /\ pc = "idle"
    /\ n' = 6
    /\ runs' = runs + 1
    /\ \E a2 \in SecondAmplitudes, a3 \in SecondAmplitudes \cup {WindowA1} :
         /\ a2 > 0
         /\ a3 > 0
         /\ extrema' = ZigzagExtrema(WindowA1, WindowA1, a2, a3)
    /\ pc' = "detected"
    /\ UNCHANGED <<held, input, stored, scan, waves, triples, current_idx,
                   current_phase, phase_desc, valid_triples, report, ref>>

InitWindow == InitWith({1}, {RMinDefault})

\* The stages up to find_triples; _f_ratio is read on their triples.
NextWindow ==
    \/ Zigzag
    \/ BuildWaves
    \/ ClassifyWaves
    \/ DetectTriples

SpecWindow == InitWindow /\ [][NextWindow]_vars

(* ------------------- the window of the polynomial smoother ------------- *)
\* smooth with method "savgol" up to the call of savgol_filter: wl is
\* computed from the configured window and order.
ComputeWindow ==
    /\ pc = "idle"
    /\ smooth_method = "savgol"
    /\ window_length = 0
    /\ window_length' = WindowLength
    /\ UNCHANGED <<pc, cfg, call, scan, outs, runs, ref, time_step, other,
                   waves_tf1, waves_tf2, frac, panel>>

\* The polynomial smoother under any window 0..MaxWindow and any order
\* 0..MaxPoly.
InitSavgol ==
    InitCfg({3}, {RMinDefault},
            {<<"savgol", w, o>> : w \in 0..MaxWindow, o \in 0..MaxPoly}, {1})

NextSavgol == ComputeWindow

SpecSavgol == InitSavgol /\ [][NextSavgol]_vars

(* ------------------- the timeframe selectors (app.py) ------------------ *)
\* label -> (interval, period)
TF_BIG_OPTIONS ==
    [k \in {"1 Day", "4 Hours", "1 Hour", "15 Min", "5 Min"} |->
        CASE k = "1 Day"   -> <<"1d", "2y">>
          [] k = "4 Hours" -> <<"4h", "60d">>
          [] k = "1 Hour"  -> <<"1h", "30d">>
          [] k = "15 Min"  -> <<"15m", "8d">>
          [] k = "5 Min"   -> <<"5m", "5d">>]

TF_SMALL_OPTIONS ==
    [k \in {"4 Hours", "1 Hour", "15 Min", "5 Min", "1 Min"} |->
        CASE k = "4 Hours" -> <<"4h", "90d">>
          [] k = "1 Hour"  -> <<"1h", "30d">>
          [] k = "15 Min"  -> <<"15m", "14d">>
          [] k = "5 Min"   -> <<"5m", "5d">>
          [] k = "1 Min"   -> <<"1m", "2d">>]

\* Default small TF for each big TF.
TF_DEFAULT_SMALL ==
    [k \in {"1 Day", "4 Hours", "1 Hour", "15 Min", "5 Min"} |->
        CASE k = "1 Day"   -> "4 Hours"
          [] k = "4 Hours" -> "1 Hour"
          [] k = "1 Hour"  -> "15 Min"
          [] k = "15 Min"  -> "5 Min"
          [] k = "5 Min"   -> "1 Min"]

\* Minutes per bar for each TF.
TF_MINUTES ==
    [k \in {"1m", "5m", "15m", "4h", "1h", "1d"} |->
        CASE k = "1m"  -> 1
          [] k = "5m"  -> 5
          [] k = "15m" -> 15
          [] k = "4h"  -> 240
          [] k = "1h"  -> 60
          [] k = "1d"  -> 1440]

\* dict.get(key, default)
Get(table, key, default) ==
    IF key \in DOMAIN table THEN table[key] ELSE default

\* list.index(x) of a list that holds x, counted from 0.
IndexIn(order, x) ==
    (CHOOSE i \in 1..Len(order) :
        /\ order[i] = x
        /\ \A j \in 1..(i - 1) : order[j] # x) - 1

\* suggest_small_tf with the test small_idx < big_idx.
suggest_small_tf_Lax(big_tf_name, current_small) ==
    LET suggested_tf   == Get(TF_DEFAULT_SMALL, big_tf_name, "1 Hour")
        big_interval   == Get(TF_BIG_OPTIONS, big_tf_name, <<"1d", "">>)[1]
        small_interval == Get(TF_SMALL_OPTIONS, current_small,
                              <<"1h", "">>)[1]
        order     == <<"1d", "4h", "1h", "15m", "5m", "1m">>
        big_idx   == IF \E i \in 1..Len(order) : order[i] = big_interval
                     THEN IndexIn(order, big_interval) ELSE 0
        small_idx == IF \E i \in 1..Len(order) : order[i] = small_interval
                     THEN IndexIn(order, small_interval) ELSE 2
    IN  IF small_idx < big_idx THEN suggested_tf ELSE current_small

\* suggest_small_tf(big_tf_name, current_small)
suggest_small_tf(big_tf_name, current_small) ==
    LET suggested_tf   == Get(TF_DEFAULT_SMALL, big_tf_name, "1 Hour")
        big_interval   == Get(TF_BIG_OPTIONS, big_tf_name, <<"1d", "">>)[1]
        small_interval == Get(TF_SMALL_OPTIONS, current_small,
                              <<"1h", "">>)[1]
        order     == <<"1d", "4h", "1h", "15m", "5m", "1m">>
        big_idx   == IF \E i \in 1..Len(order) : order[i] = big_interval
                     THEN IndexIn(order, big_interval) ELSE 0
        small_idx == IF \E i \in 1..Len(order) : order[i] = small_interval
                     THEN IndexIn(order, small_interval) ELSE 2
    IN  IF small_idx <= big_idx THEN suggested_tf ELSE current_small

\* The user picks a big timeframe: the radio items take the value and the
\* callback is requested with the value the small selector has now.
SelectBig(k) ==
    /\ pc = "idle"
    /\ pending = << >>
    /\ k # tf_selector
    /\ tf_selector' = k
    /\ pending' = <<[big_tf_name |-> k, current_small |-> tf_small_selector]>>
    /\ UNCHANGED <<pc, cfg, call, scan, outs, runs, ref, time_step, other,
                   waves_tf1, waves_tf2, frac, window_length,
                   tf_small_selector, suggested>>

\* The user picks a small timeframe (no callback has it as an Input here).
SelectSmall(k) ==
    /\ pc = "idle"
    /\ k # tf_small_selector
    /\ tf_small_selector' = k
    /\ UNCHANGED <<pc, cfg, call, scan, outs, runs, ref, time_step, other,
                   waves_tf1, waves_tf2, frac, window_length,
                   tf_selector, pending, suggested>>

\* The callback runs: its return value is the Output "tf-small-selector".
SuggestCallback ==
    /\ pc = "idle"
    /\ pending # << >>
    /\ LET a   == pending[1]
           ret == suggest_small_tf(a.big_tf_name, a.current_small)
       IN  /\ tf_small_selector' = ret
           /\ suggested' = <<[big_tf_name   |-> a.big_tf_name,
                              current_small |-> a.current_small,
                              returned      |-> ret]>>
    /\ pending' = << >>
    /\ UNCHANGED <<pc, cfg, call, scan, outs, runs, ref, time_step, other,
                   waves_tf1, waves_tf2, frac, window_length, tf_selector>>

InitPanel == InitCfg({3}, {RMinDefault}, {<<"ema", SmoothWindow, SmoothPoly>>},
                     {1})

NextPanel ==
    \/ \E k \in DOMAIN TF_BIG_OPTIONS : SelectBig(k)
    \/ \E k \in DOMAIN TF_SMALL_OPTIONS : SelectSmall(k)
    \/ SuggestCallback

SpecPanel == InitPanel /\ [][NextPanel]_vars

(* =============================== claims ================================ *)
Detected == pc \in {"detected", "built", "classified", "tripled", "scored",
                    "phased", "done"}
Built    == pc \in {"built", "classified", "tripled", "scored", "phased",
                    "done"}
Tripled  == pc \in {"tripled", "scored", "phased", "done"}
Scored   == pc \in {"scored", "phased", "done"}
Phased   == pc \in {"phased", "done"}

\* C1: the list detect returns strictly alternates in kind: no two
\* consecutive extrema are both 'max' or both 'min', for every series and
\* every min_distance >= 1.
C1_Alternates ==
    Detected =>
        \A k \in 1..(Len(extrema) - 1) : extrema[k].kind # extrema[k + 1].kind

\* C1 witness: detect has returned three or more extrema after the post-pass
\* dropped one the scan had found.
C1_Witness ==
    /\ pc = "detected"
    /\ Len(extrema) >= 3
    /\ Len(acc.found) > Len(extrema)

\* C2: build returns max(k - 1, 0) waves for k extrema, wave j running from
\* extrema[j] to extrema[j + 1]; fewer than two extrema give no wave.
C2_WaveCount ==
    Built =>
        /\ Len(waves) = Max2(Len(extrema) - 1, 0)
        /\ \A j \in 1..Len(waves) :
              /\ waves[j].start = extrema[j]
              /\ waves[j].end = extrema[j + 1]
              /\ waves[j].idx = j - 1
        /\ (Len(extrema) < 2 => waves = << >>)

\* C2 witness: build has turned four extrema into three waves.
C2_Witness ==
    /\ pc = "built"
    /\ Len(extrema) = 4
    /\ Len(waves) = 3

\* impulse / correction / impulse
TypesFit(t) ==
    /\ t.w1.wave_type = "impulse"
    /\ t.w2.wave_type = "correction"
    /\ t.w3.wave_type = "impulse"

\* C3: every triple with is_valid = true has r_min <= correction_ratio <=
\* r_max, w3.amplitude >= alpha * w1.amplitude, w1.direction # w2.direction,
\* and is impulse / correction / impulse.
C3_ValidTripleBounds ==
    Tripled =>
        \A k \in 1..Len(triples) :
            triples[k].is_valid =>
                /\ RatioAtLeast(triples[k].correction_ratio, r_min)
                /\ RatioAtMost(triples[k].correction_ratio, RMaxPct)
                /\ Continues(triples[k].w1, triples[k].w3)
                /\ triples[k].w1.direction # triples[k].w2.direction
                /\ TypesFit(triples[k])

\* C3 witness: a run has returned with a valid triple among its triples.
C3_Witness ==
    /\ pc = "done"
    /\ \E k \in 1..Len(triples) : triples[k].is_valid

\* C4: in the output of a run every valid triple has w1.direction =
\* w3.direction.
C4_ImpulsesAgree ==
    pc = "done" =>
        \A k \in 1..Len(triples) :
            triples[k].is_valid =>
                triples[k].w1.direction = triples[k].w3.direction

\* C5: once score has run, every valid triple has quality_score >= threshold
\* (a score below it forces is_valid = false), and every triple, valid or
\* not, carries its composite score.
C5_QualityGate ==
    Scored =>
        \A k \in 1..Len(triples) :
            /\ triples[k].is_valid => ~BelowThreshold(triples[k].quality_score)
            /\ triples[k].quality_score = Quality(triples[k])

\* The structural checks of find_triples on a triple as it stands.
Structural(t) == TripleValid(t.w1, t.w2, t.w3, t.correction_ratio, r_min)

\* C5 witness: score has demoted a triple that passes the structural checks.
C5_Witness ==
    /\ pc = "scored"
    /\ \E k \in 1..Len(triples) :
          /\ Structural(triples[k])
          /\ ~triples[k].is_valid
          /\ BelowThreshold(triples[k].quality_score)

\* The amplitude ratio w2.amplitude / w1.amplitude without the guard.
ExactRatio(t) == [num |-> t.w2.amplitude, den |-> t.w1.amplitude, eps |-> 0]

\* C6: find_triples marks a window valid iff it is impulse / correction /
\* impulse, w3.amplitude >= alpha * w1.amplitude, r_min <= w2.amplitude /
\* w1.amplitude <= r_max for the exact ratio with both boundary values, and
\* w1.direction # w2.direction; the stored correction_ratio is the ratio of
\* these two amplitudes.
C6_ValidIffExact ==
    pc = "tripled" =>
        \A k \in 1..Len(triples) :
            /\ triples[k].is_valid <=>
                  /\ TypesFit(triples[k])
                  /\ Continues(triples[k].w1, triples[k].w3)
                  /\ RatioAtLeast(ExactRatio(triples[k]), r_min)
                  /\ RatioAtMost(ExactRatio(triples[k]), RMaxPct)
                  /\ triples[k].w1.direction # triples[k].w2.direction
            /\ triples[k].correction_ratio.num = triples[k].w2.amplitude
            /\ triples[k].correction_ratio.den = triples[k].w1.amplitude

\* C7: find_triples returns max(n - 2, 0) triples for n waves, triple i over
\* waves[i], waves[i + 1], waves[i + 2] in order, valid or not, and the run
\* keeps them all in its triples.
C7_EveryWindow ==
    Tripled =>
        /\ Len(triples) = Max2(Len(waves) - 2, 0)
        /\ \A i \in 1..Len(triples) :
              /\ triples[i].w1 = waves[i]
              /\ triples[i].w2 = waves[i + 1]
              /\ triples[i].w3 = waves[i + 2]

\* C7 witness: a run has returned triples of which one is valid and one is
\* not.
C7_Witness ==
    /\ pc = "done"
    /\ \E k \in 1..Len(triples) : triples[k].is_valid
    /\ \E k \in 1..Len(triples) : ~triples[k].is_valid

\* The most recent valid triple.
LastValid == LET valid == SelectValid(triples) IN valid[Len(valid)]

\* C8: assign(triples, c) returns phase 0 with "No valid structure found" iff
\* no triple is valid; otherwise, against the most recent valid triple, 1 if
\* c <= w1.end.index, 2 if w1.end.index < c <= w2.end.index, 3 if
\* c > w2.end.index.
C8_PhaseByPosition ==
    Phased =>
        /\ (current_phase = 0 /\ phase_desc = NoStructure)
               <=> SelectValid(triples) = << >>
        /\ SelectValid(triples) # << >> =>
               current_phase =
                   IF current_idx <= LastValid.w1.end.index THEN 1
                   ELSE IF current_idx <= LastValid.w2.end.index THEN 2
                   ELSE 3

\* C8 witness: assign was called with c the end index of w2 of the most recent
\* valid triple and returned 2.
C8_Witness ==
    /\ pc = "phased"
    /\ SelectValid(triples) # << >>
    /\ current_idx = LastValid.w2.end.index
    /\ current_phase = 2

\* C9: the step of assign writes the returned phase onto every valid triple,
\* leaves every invalid triple as it was, with phase 0, and changes nothing
\* else of a triple; with no valid triple it writes nothing.
C9_PhaseOnEveryValid ==
    [][(pc = "scored" /\ pc' = "phased") =>
          /\ Len(triples') = Len(triples)
          /\ \A k \in 1..Len(triples) :
                IF triples[k].is_valid
                THEN triples'[k] = [triples[k] EXCEPT !.phase = current_phase']
                ELSE triples'[k] = triples[k] /\ triples'[k].phase = 0]_vars

\* C9 witness: assign has returned phase 1 or 2 on triples of which two are
\* valid and carry it, and one is invalid and carries 0.
C9_Witness ==
    /\ pc = "phased"
    /\ current_phase \in {1, 2}
    /\ \E j, k \in 1..Len(triples) :
          /\ j < k
          /\ triples[j].is_valid /\ triples[j].phase = current_phase
          /\ triples[k].is_valid /\ triples[k].phase = current_phase
    /\ \E k \in 1..Len(triples) :
          ~triples[k].is_valid /\ triples[k].phase = 0

Contributing == {j \in 1..Len(waves_tf2) : waves_tf2[j].amplitude > 0}

\* C11: self_similarity returns coefficient = none with stable = false
\* exactly when no ratio is collected: a list is empty, or no wave of the
\* second list has an amplitude above epsilon; otherwise every wave of the
\* first list meets every such wave of the second, and stable is true iff
\* the returned coefficient of variation is below 0.30.
C11_StableAndNone ==
    frac # << >> =>
        /\ frac[1].coefficient = NoCoefficient
               <=> (waves_tf1 = << >> \/ waves_tf2 = << >> \/ Contributing = {})
        /\ frac[1].coefficient = NoCoefficient => ~frac[1].stable
        /\ frac[1].coefficient # NoCoefficient =>
               /\ frac[1].n_pairs = Len(waves_tf1) * Cardinality(Contributing)
               /\ frac[1].stable
                      <=> frac[1].cv.var_num <= (9 * frac[1].cv.sum_sq) \div 100

\* C11 witness: a wave of the second list is skipped, another contributes, and
\* the ratios scatter too much to be stable.
C11_Witness ==
    /\ frac # << >>
    /\ frac[1].coefficient # NoCoefficient
    /\ ~frac[1].stable
    /\ Contributing # {}
    /\ Cardinality(Contributing) < Len(waves_tf2)

\* Every wave of ws has amplitude a.
AllOf(ws, a) == ws # << >> /\ \A k \in 1..Len(ws) : ws[k].amplitude = a

\* a / b is written with finitely many binary digits.
Dyadic(a, b) ==
    LET q == b \div Gcd(a, b)
    IN  \E k \in 0..MaxAmp : q = 2^k

\* What self_similarity returns on lists of amplitudes a and b > 0, but for
\* the coefficient of variation.
EqualLists(a, b) ==
    /\ frac[1].coefficient # NoCoefficient
    /\ frac[1].coefficient[1].num * b = a * frac[1].coefficient[1].den
    /\ frac[1].stable
    /\ frac[1].n_pairs = Len(waves_tf1) * Len(waves_tf2)

C13_ShortInputReturns == n < 5 => pc # "raised"

\* C14: a run on a series of 5 samples or more, under any configuration the
\* constructor accepted, completes: no stage raises.
C14_LongInputCompletes == n >= 5 => pc # "raised"

\* C15: a configuration with r_min above r_max is rejected when the pipeline
\* is constructed: no call of run ever starts under one.
C15_InvertedRejected == pc # "idle" => r_min <= RMaxPct

\* C16: the time of every extremum is the time of the input sample at its
\* index, and the duration of every wave is the difference of the times of
\* the samples at its two ends (above zero).
C16_TimesOfSamples ==
    /\ Detected =>
         \A k \in 1..Len(extrema) :
            extrema[k].time = time_step * extrema[k].index
    /\ Built =>
         \A j \in 1..Len(waves) :
            /\ waves[j].duration.eps = 0
            /\ waves[j].duration.whole > 0
            /\ waves[j].duration.whole =
                  time_step * (waves[j].end.index - waves[j].start.index)

Classified == pc \in {"classified", "tripled", "scored", "phased", "done"}

\* The product of the durations of the waves k..Len(ws) but the one at skip.
RECURSIVE OtherDurations(_, _, _)
OtherDurations(ws, k, skip) ==
    IF k > Len(ws) THEN 1
    ELSE (IF k = skip THEN 1 ELSE ws[k].velocity.den.whole)
         * OtherDurations(ws, k + 1, skip)

\* The velocity amplitude / duration of wave k times the product of all the
\* durations of the batch.
VelocityTimesAll(ws, k) == ws[k].velocity.num * OtherDurations(ws, 1, k)

FrameOfTriples ==
    /\ waves' = waves
    /\ Len(triples') = Len(triples)
    /\ \A k \in 1..Len(triples) :
          /\ triples'[k].w1 = triples[k].w1
          /\ triples'[k].w2 = triples[k].w2
          /\ triples'[k].w3 = triples[k].w3
          /\ triples'[k].correction_ratio = triples[k].correction_ratio
          /\ (triples'[k].is_valid => triples[k].is_valid)
          /\ (pc = "tripled" => triples'[k].phase = triples[k].phase)
          /\ (pc = "scored" =>
                /\ triples'[k].quality_score = triples[k].quality_score
                /\ triples'[k].is_valid = triples[k].is_valid)
          /\ (pc = "phased" => triples'[k] = triples[k])

\* C18: once find_triples has made the triples, score changes of a triple
\* only quality_score and is_valid (and that only from true to false),
\* assign changes only phase, and the rest of run changes nothing: w1, w2, w3
\* and correction_ratio of every triple and every field of every wave stay
\* as they were.
C18_LaterStagesFrame ==
    [][(pc \in {"tripled", "scored", "phased"}) => FrameOfTriples]_vars

\* C18 witness: run has returned triples of which one was scored, stayed
\* valid and was given a phase, and another is invalid and has phase 0.
C18_Witness ==
    /\ pc = "done"
    /\ \E k \in 1..Len(triples) :
          /\ triples[k].is_valid
          /\ triples[k].phase # 0
          /\ triples[k].quality_score.num # 0
    /\ \E k \in 1..Len(triples) :
          /\ ~triples[k].is_valid
          /\ triples[k].phase = 0

\* The result of a parked call.
ResultOf(f) ==
    [outcome       |-> f.pc,
     extrema       |-> f.extrema,
     waves         |-> f.waves,
     triples       |-> f.triples,
     valid_triples |-> f.valid_triples,
     current_phase |-> f.current_phase,
     report        |-> f.report]

\* The input and the min_distance of the run in the given slot.
InSlot(slot) ==
    IF other[1].slot = slot
    THEN [input |-> other[1].input, d |-> other[1].min_distance]
    ELSE [input |-> input, d |-> min_distance]

UpDown(p, t) ==
    /\ \A k \in 1..(t - 1) : p[k] < p[k + 1]
    /\ \A k \in t..(Len(p) - 1) : p[k] > p[k + 1]

\* C20: when the series detect reads rises strictly up to one turning index
\* (with samples on both sides of it) and falls strictly after it, detect
\* returns exactly one extremum, a max at the turning index, and the run has
\* no valid triple.
C20_SinglePeak ==
    Detected =>
        LET p == SmoothAll(input)
        IN  \A t \in 2..(n - 1) :
               UpDown(p, t) =>
                  /\ extrema = <<Extremum(t - 1, p[t], "max")>>
                  /\ SelectValid(triples) = << >>
                  /\ valid_triples = << >>

\* C20 witness: run has returned on a series of RerunLen samples that rises
\* for at least two steps and then falls for at least two.
C20_Witness ==
    /\ pc = "done"
    /\ n = RerunLen
    /\ \E t \in 3..(n - 2) : UpDown(SmoothAll(input), t)

\* The window of the scenario: impulse / correction / impulse, up / down /
\* up, with amplitudes 100, 61.8 and 100.
GoldenWindow(t) ==
    /\ t.w1.amplitude = WindowA1
    /\ t.w2.amplitude = WindowA2
    /\ t.w3.amplitude = WindowA1
    /\ t.w1.wave_type = "impulse"
    /\ t.w2.wave_type = "correction"
    /\ t.w3.wave_type = "impulse"
    /\ t.w1.direction = "up" /\ t.w2.direction = "down"
    /\ t.w3.direction = "up"

\* C21: find_triples marks the window with amplitudes 100, 61.8, 100 valid
\* and its ratio-fit is exactly 1.0: the fraction is 1 and the guard of the
\* divisor takes nothing from it.
C21_GoldenFitIsOne ==
    pc = "tripled" =>
        \A k \in 1..Len(triples) :
           GoldenWindow(triples[k]) =>
              /\ Structural(triples[k])
              /\ FRatio(triples[k]).num = FRatio(triples[k]).den
              /\ FRatio(triples[k]).eps = 0

\* C22: the most recent valid triple of assign, the last valid one in the
\* order find_triples emits them, is the valid triple with the strictly
\* highest w3.end.index, the one _box_by_pattern selects.
C22_LastIsHighest ==
    (Scored /\ SelectValid(triples) # << >>) =>
        LET valid == SelectValid(triples)
        IN  /\ BoxLast(valid) = valid[Len(valid)]
            /\ \A j \in 1..(Len(valid) - 1) :
                  valid[j].w3.end.index < valid[Len(valid)].w3.end.index

\* C22 witness: run has returned two valid triples.
C22_Witness ==
    /\ pc = "done"
    /\ Len(valid_triples) >= 2
    /\ BoxLast(valid_triples) # valid_triples[1]

\* C23: every extremum detect returns is a strict local extremum of the
\* series it scanned: its index i is interior (1 <= i <= N - 2), its price
\* is P(i), and P(i) is above both neighbours for a max, below both for a
\* min.
C23_StrictLocalExtrema ==
    Detected =>
        LET p == SmoothAll(input)
        IN  \A k \in 1..Len(extrema) :
               LET e == extrema[k]
                   i == e.index
               IN  /\ 1 <= i /\ i <= n - 2
                   /\ e.price = p[i + 1]
                   /\ e.kind \in {"max", "min"}
                   /\ e.kind = "max" => (p[i + 1] > p[i] /\ p[i + 1] > p[i + 2])
                   /\ e.kind = "min" => (p[i + 1] < p[i] /\ p[i + 1] < p[i + 2])

\* C23 witness: detect has returned a max and a min, the first at index 1
\* and the last at index N - 2, on a series of RerunLen samples.
C23_Witness ==
    /\ Detected
    /\ Len(extrema) >= 2
    /\ extrema[1].index = 1
    /\ extrema[Len(extrema)].index = n - 2
    /\ \E j, k \in 1..Len(extrema) :
          extrema[j].kind = "max" /\ extrema[k].kind = "min"
    /\ n = RerunLen

\* Consecutive extrema of ex are at least d indices apart.
Spaced(ex, d) ==
    \A k \in 1..(Len(ex) - 1) : ex[k + 1].index - ex[k].index >= d

\* C24: for min_distance >= 1 any two consecutive extrema are at least
\* min_distance indices apart (so the indices strictly increase), in the
\* list of the scan at every point of it and in the list the post-pass
\* returns.
C24_MinDistanceApart ==
    /\ pc \in {"scan", "detected"} => Spaced(acc.found, min_distance)
    /\ Detected => Spaced(extrema, min_distance)
    /\ Detected => Spaced(extrema, 1)

\* C24 witness: at a min_distance of 2 or more the scan has accepted more
\* extrema than the post-pass returns, and it returns two or more.
C24_Witness ==
    /\ pc = "detected"
    /\ min_distance >= 2
    /\ Len(acc.found) > Len(extrema)
    /\ Len(extrema) >= 2

\* The positions of f at which a maximal run of one kind starts.
RunStarts(f) == {i \in 1..Len(f) : i = 1 \/ f[i].kind # f[i - 1].kind}

\* The last position of the run of f that starts at i.
RunEnd(f, i) ==
    CHOOSE t \in i..Len(f) :
       /\ \A q \in i..t : f[q].kind = f[i].kind
       /\ t = Len(f) \/ f[t + 1].kind # f[i].kind

\* a is more extreme than b: higher for a max, lower for a min.
MoreExtreme(a, b) ==
    IF a.kind = "max" THEN a.price > b.price ELSE a.price < b.price

\* The position of the most extreme of the run i..t, the earliest on ties.
MostExtreme(f, i, t) ==
    CHOOSE m \in i..t :
       /\ \A q \in i..t : ~MoreExtreme(f[q], f[m])
       /\ \A q \in i..(m - 1) : MoreExtreme(f[m], f[q])

\* C25: the post-pass returns one extremum for every maximal run of adjacent
\* extrema of one kind in the list of the scan, in the order of the runs:
\* the most extreme of the run, the earliest one on ties (for a run of
\* length 1 the extremum itself).
C25_RunsCollapsed ==
    Detected =>
        LET f == acc.found
        IN  /\ Len(extrema) = Cardinality(RunStarts(f))
            /\ \A i \in RunStarts(f) :
                  LET j == Cardinality({r \in RunStarts(f) : r <= i})
                  IN  extrema[j] = f[MostExtreme(f, i, RunEnd(f, i))]

\* C25 witness: the scan found a run in which a later extremum is the most
\* extreme, a run with a tie, and a run of length 1.
C25_Witness ==
    /\ pc = "detected"
    /\ LET f == acc.found
       IN  /\ \E i \in RunStarts(f) :
                 MostExtreme(f, i, RunEnd(f, i)) > i
           /\ \E i \in RunStarts(f) :
                 /\ RunEnd(f, i) > i
                 /\ f[i + 1].price = f[i].price
           /\ \E i \in RunStarts(f) : RunEnd(f, i) = i

\* C26: the window length the polynomial smoother hands to the filter is
\* odd and at least the polynomial order + 2, for every configured window
\* and order.
C26_OddWindow ==
    window_length # 0 =>
        /\ window_length % 2 = 1
        /\ window_length >= smooth_poly + 2

\* C27: in every result of run current_phase is 0 or 3: the bar handed to
\* assign is N - 1, after the end of w3 of every triple, so with a valid
\* triple the phase is 3 with the post-structure description and without
\* one it is 0; phases 1 and 2 are never returned.
C27_PhaseZeroOrThree ==
    Phased =>
        /\ current_phase \in {0, 3}
        /\ current_idx = n - 1
        /\ \A k \in 1..Len(triples) : triples[k].w3.end.index < current_idx
        /\ IF SelectValid(triples) = << >>
           THEN current_phase = 0
           ELSE /\ current_phase = 3
                /\ phase_desc = "Phase 3+ - Post-structure zone"

\* C27 witness: run has returned a valid triple whose w3 ends at the last
\* interior sample, N - 2.
C27_Witness ==
    /\ pc = "done"
    /\ valid_triples # << >>
    /\ valid_triples[Len(valid_triples)].w3.end.index = n - 2
    /\ current_phase = 3

\* The sub-score f lies in [0, 1], what the guards add included.
InUnit(f) ==
    /\ f.den > 0
    /\ 0 <= f.num /\ f.num <= f.den
    /\ f.num = 0 => f.eps >= 0
    /\ f.num = f.den => f.eps <= 0

\* C28: for every triple of the pipeline the ratio-fit, the symmetry-fit and
\* the slope-fit lie in [0, 1], and the quality_score lies in
\* [0, w1 + w2 + w3].
C28_ScoresInRange ==
    Scored =>
        \A k \in 1..Len(triples) :
           /\ InUnit(FRatio(triples[k]))
           /\ InUnit(FSymmetry(triples[k]))
           /\ InUnit(FSlope(triples[k]))
           /\ triples[k].quality_score.den > 0
           /\ 0 <= triples[k].quality_score.num
           /\ 100 * triples[k].quality_score.num
                 <= (QualityW1 + QualityW2 + QualityW3)
                       * triples[k].quality_score.den

\* C28 witness: score has run on a triple whose ratio-fit is at its floor 0
\* with a ratio above 1.1, and on one whose symmetry-fit and slope-fit are 1.
C28_Witness ==
    /\ pc = "scored"
    /\ \E k \in 1..Len(triples) :
          /\ FRatio(triples[k]).num = 0
          /\ 10 * triples[k].w2.amplitude > 11 * triples[k].w1.amplitude
    /\ \E k \in 1..Len(triples) :
          /\ FSymmetry(triples[k]).num = FSymmetry(triples[k]).den
          /\ FSlope(triples[k]).num = FSlope(triples[k]).den

\* C29: no two valid triples are windows that start at adjacent waves: when
\* the triple that starts at wave i is valid the one that starts at i + 1 is
\* not, so the starts of two valid triples differ by at least 2.
C29_NoAdjacentValid ==
    Tripled =>
        /\ \A k \in 1..(Len(triples) - 1) :
              ~(triples[k].is_valid /\ triples[k + 1].is_valid)
        /\ \A j, k \in 1..Len(triples) :
              (j < k /\ triples[j].is_valid /\ triples[k].is_valid)
                 => triples[k].w1.idx - triples[j].w1.idx >= 2

\* C29 witness: find_triples has returned three windows of which the first
\* and the third are valid.
C29_Witness ==
    /\ pc = "tripled"
    /\ \E k \in 1..(Len(triples) - 2) :
          /\ triples[k].is_valid
          /\ ~triples[k + 1].is_valid
          /\ triples[k + 2].is_valid

\* The timeframe a small option, a big option denotes is strictly finer when
\* its bars are shorter (TF_MINUTES of the option's interval).
Finer(small_name, big_name) ==
    TF_MINUTES[TF_SMALL_OPTIONS[small_name][1]]
        < TF_MINUTES[TF_BIG_OPTIONS[big_name][1]]

\* C30: for every big option and every current small option, the value
\* suggest_small_tf returns is a small option strictly finer than the big
\* one: it is the current small timeframe when that one is strictly finer,
\* and the default small timeframe of the big one otherwise.
C30_SuggestedIsFiner ==
    suggested # << >> =>
        LET c == suggested[1]
        IN  /\ c.returned \in DOMAIN TF_SMALL_OPTIONS
            /\ Finer(c.returned, c.big_tf_name)
            /\ c.returned = IF Finer(c.current_small, c.big_tf_name)
                            THEN c.current_small
                            ELSE TF_DEFAULT_SMALL[c.big_tf_name]

\* The callback has run with a small timeframe that is not finer than the
\* big one picked, and has replaced it.
C30_Witness ==
    /\ suggested # << >>
    /\ ~Finer(suggested[1].current_small, suggested[1].big_tf_name)
    /\ suggested[1].returned # suggested[1].current_small
    /\ tf_small_selector = suggested[1].returned

====
